---- MODULE Spec2Model ----
(***************************************************************************)
(* Replay of the per-group event logs into the messenger database:         *)
(* go/pkg/bertymessenger/replay.go (replayLogsToDB, processMetadataList,   *)
(* processMessageList).                                                    *)
(*                                                                         *)
(* The protocol client, the database wrapper and the event handler are     *)
(* collaborators: each of their calls returns success or an error, chosen  *)
(* nondeterministically.  The logs of the groups and the conversation list *)
(* of the database are inputs, drawn in Init from bounded sets.            *)
(*                                                                         *)
(* Specifications: Spec (any inputs, any number of invocations),           *)
(* SpecScenario (one fixed input), FairSpec (every call returns),          *)
(* SpecWriter (events are appended to the logs meanwhile) and SpecStore    *)
(* (the handler creates conversation records).                             *)
(***************************************************************************)
EXTENDS Integers, Sequences, FiniteSets, TLC

\* ------------------------------------------------------------------ bounds
\* total number of events in all the logs together
MaxItems == 2
\* number of conversation records returned by the database
MaxConvs == 2

\* ------------------------------------------------------- keys and encoding
\* Group public keys are one byte long here: the account group and two others.
Keys == {0, 1, 2}

\* cfg.GetAccountGroupPK(): the account group of the instance
AccountGroupPK == 0

\* value of a []byte variable that has not been assigned yet
NoKey == 0 - 1

\* base64.RawURLEncoding of a one-byte key: two characters of six bits,
\* written as their alphabet indexes
b64EncodeBytes(b) == << b \div 4, (b % 4) * 16 >>

\* a character outside of the alphabet is a CorruptInputError
b64DecodeFails(s) == \E i \in 1..Len(s) : s[i] < 0 \/ s[i] > 63

\* the decoder is not strict: the low four bits of the last character are dropped
b64DecodeBytes(s) == (s[1] * 4 + (s[2] \div 16)) % 256

\* public keys of the conversation records the database may hold: key 0, key 1,
\* key 2 in a spelling that is not the encoder's (trailing bits set) and an
\* undecodable one
PKStrings == { b64EncodeBytes(0), b64EncodeBytes(1), <<0, 33>>, <<64, 0>> }

\* ------------------------------------------------------------------ errors
\* an error is the sequence of its codes, outermost first; nil is empty
Nil == << >>

\* errcode.ErrCode.Wrap: always a non-nil error, also around a nil error
Wrap(code, inner) == <<code>> \o inner

\* errors of the collaborators
ClientErr == <<"rpc">>
DBErr == <<"db">>
B64Err == <<"base64">>
ProtoErr == <<"proto">>
HandlerErr == <<"handler">>

\* payloads of the messages of the logs
Payloads == {"app", "garbage"}

\* the error of proto.Unmarshal dropped
UnmarshalErrorIgnored(payload) == FALSE

\* proto.Unmarshal of the payload of a message into an AppMessage fails
UnmarshalFails(payload) == payload = "garbage"

\* ------------------------------------------------------------------- state
VARIABLES
    pc,          \* position of the flow in replayLogsToDB
    cfgPK,       \* cfg.GetAccountGroupPK() of this invocation
    convs,       \* convs, the result of getAllConversations
    idx,         \* index of conv in convs; 0 before the loop
    groupPK,     \* groupPK of the drain in progress
    pos,         \* items received from the open stream
    until,       \* number of items of the open stream (UntilNow)
    ret,         \* the error returned by replayLogsToDB, when pc = "done"
    cancelled,   \* ctx.Err() != nil
    activated,   \* groups activated in the protocol client
    storeConvs,  \* public keys of the conversation records of the database
    metaLog,     \* number of events in the metadata log of each group
    msgLog,      \* payloads of the events in the message log of each group
    creates,     \* the conversation record the handler creates for an event
    open,        \* the streams whose context has not been cancelled
    prev,        \* what the invocation before this one left, if it returned nil
    trace        \* calls made by this invocation, in order

vars == << pc, cfgPK, convs, idx, groupPK, pos, until, ret, cancelled,
           activated, storeConvs, metaLog, msgLog, creates, open, prev, trace >>

\* the logs of the groups and what the handler makes of their events
logs == << metaLog, msgLog, creates >>

env == << storeConvs, logs >>

\* a call of a collaborator: operation, group, item and result
Call(op, g, i, res) == [op |-> op, g |-> g, i |-> i, res |-> res]

RECURSIVE SumLen(_, _)
SumLen(f, S) ==
    IF S = {} THEN 0
    ELSE LET k == CHOOSE x \in S : TRUE
         IN  f[k] + SumLen(f, S \ {k})

SeqsUpTo(S, n) == UNION { [1..k -> S] : k \in 0..n }

\* the groups the account is a member of: its own group and the groups of the
\* conversation records
Joined(cs) ==
    {AccountGroupPK} \cup
    { b64DecodeBytes(cs[i]) : i \in { j \in 1..Len(cs) : ~b64DecodeFails(cs[j]) } }

TotalItems(ml, gl) == SumLen(ml, Keys) + SumLen([k \in Keys |-> Len(gl[k])], Keys)

\* the events of the logs: kind of log, group and position
EventsOf(ml, gl) ==
    { e \in {"meta"} \X Keys \X (1..MaxItems) : e[3] <= ml[e[2]] }
    \cup
    { e \in {"msg"} \X Keys \X (1..MaxItems) : e[3] <= Len(gl[e[2]]) }

\* an event for which the handler creates no conversation record
NoRecord == << >>

\* the record the handler creates for event e, if any
Created(e) == IF e \in DOMAIN creates THEN creates[e] ELSE NoRecord

\* no invocation before the first one
NoRun == << >>

\* the replayer has been built and not called yet
InitReplayer ==
    /\ pc = "idle"
    /\ cfgPK = NoKey
    /\ convs = << >>
    /\ idx = 0
    /\ groupPK = NoKey
    /\ pos = 0
    /\ until = 0
    /\ ret = Nil
    /\ cancelled = FALSE
    /\ activated = {}
    /\ open = {}
    /\ prev = NoRun
    /\ trace = << >>

Init ==
    /\ InitReplayer
    /\ metaLog \in [Keys -> 0..MaxItems]
    /\ msgLog \in [Keys -> SeqsUpTo(Payloads, MaxItems - SumLen(metaLog, Keys))]
    /\ TotalItems(metaLog, msgLog) <= MaxItems
    /\ storeConvs \in SeqsUpTo(PKStrings, MaxConvs)
    /\ \A k \in Keys \ Joined(storeConvs) : metaLog[k] = 0 /\ msgLog[k] = << >>
    /\ creates = [e \in EventsOf(metaLog, msgLog) |-> NoRecord]

\* ----------------------------------------------------------------- helpers
\* return err from replayLogsToDB
Return(err) ==
    /\ pc' = "done"
    /\ ret' = err

\* the test with its negation lost
IsAccountGroupInverted(pk) == pk # cfgPK

\* the test against a key that is never the one of a conversation
IsAccountGroupNever(pk) == pk = NoKey

\* bytes.Equal(groupPK, cfg.GetAccountGroupPK())
IsAccountGroup(pk) == pk = cfgPK

\* the groups activated once client.ActivateGroup(pk) returned without error
ActivateGroup(act, pk) == act \cup {pk}

\* the deferred subCancel forgotten
subCancelMissing(o, s) == o

\* defer subCancel(): the stream s of the drain that returns is not open any more
subCancel(o, s) == o \ {s}

\* the check of the context at the top of the receive loop dropped
CtxNeverDone == FALSE

\* subCtx.Err() != nil: subCtx is derived from the context of the replayer
CtxDone == cancelled

\* a stream that follows the log after the point it had reached when opened
UntilNowUnset(n) == n + MaxItems

\* UntilNow: true in the request of a stream, for a log of n events: the
\* stream ends after the n-th
UntilNow(n) == n

\* a handler that adds the record every time it applies the event
AddConversationAgain(cs, r) == IF r = NoRecord THEN cs ELSE Append(cs, r)

\* the handler applying an event that creates the conversation record r: the
\* list of the database with the record added, unless it is there already
AddConversation(cs, r) ==
    IF r = NoRecord \/ \E i \in 1..Len(cs) : cs[i] = r THEN cs ELSE Append(cs, r)

\* the conversations listed again after every drain of metadata
AfterMetadataRelists == "list"

\* the flow blocking after the drain of the metadata
AfterMetadataBlocks == "blocked"

\* the drain of the messages left inside the branch of the account group
AfterMetadataSkipsMessages == IF idx = 0 THEN "list" ELSE "deactivate"

\* where the flow goes when processMetadataList returned nil
AfterMetadata == IF idx = 0 THEN "list" ELSE "msgOpen"

\* the deactivation forgotten
AfterMessagesNoDeactivate(pk) == "next"

\* where the flow goes when processMessageList returned nil
AfterMessages(pk) == IF ~IsAccountGroup(pk) THEN "deactivate" ELSE "next"

\* the loop stopping one conversation early
NextConvOffByOne(i, cs) ==
    IF i + 1 < Len(cs)
    THEN /\ pc' = "conv"
         /\ idx' = i + 1
         /\ ret' = Nil
    ELSE /\ Return(Nil)
         /\ idx' = i

\* the loop going through convs from its last record to its first
NextConvReversed(i, cs) ==
    IF i = 0
    THEN IF Len(cs) > 0
         THEN /\ pc' = "conv"
              /\ idx' = Len(cs)
              /\ ret' = Nil
         ELSE /\ Return(Nil)
              /\ idx' = 0
    ELSE IF i > 1
         THEN /\ pc' = "conv"
              /\ idx' = i - 1
              /\ ret' = Nil
         ELSE /\ Return(Nil)
              /\ idx' = i

\* the end of an iteration of the loop over convs
NextConv(i, cs) ==
    IF i < Len(cs)
    THEN /\ pc' = "conv"
         /\ idx' = i + 1
         /\ ret' = Nil
    ELSE /\ Return(Nil)
         /\ idx' = i

\* ----------------------------------------------------------------- actions
\* the closure returned by getEventsReplayerForDB is called: replayLogsToDB
\* starts with client.InstanceGetConfiguration
Invoke ==
    /\ pc \in {"idle", "done"}
    /\ convs' = << >>
    /\ idx' = 0
    /\ groupPK' = NoKey
    /\ pos' = 0
    /\ until' = 0
    /\ \E res \in {"ok", "err"} :
        /\ trace' = << Call("InstanceGetConfiguration", AccountGroupPK, 0, res) >>
        /\ IF res = "ok"
           THEN /\ cfgPK' = AccountGroupPK
                /\ pc' = "addAccount"
                /\ ret' = Nil
           ELSE /\ cfgPK' = NoKey
                /\ Return(Wrap("TODO", ClientErr))
    /\ UNCHANGED << cancelled, activated, open, env >>

\* the replayer is called
InstanceGetConfiguration ==
    /\ Invoke
    /\ prev' = NoRun

\* wrappedDB.addAccount(pk, "")
AddAccount ==
    /\ pc = "addAccount"
    /\ \E res \in {"ok", "err"} :
        /\ trace' = Append(trace, [op |-> "addAccount", g |-> cfgPK, i |-> 0, res |-> res,
                                   pk |-> b64EncodeBytes(cfgPK), name |-> ""])
        /\ IF res = "ok"
           THEN /\ pc' = "metaOpen"
                /\ groupPK' = cfgPK
                /\ ret' = Nil
           ELSE /\ Return(Wrap("ErrDBWrite", DBErr))
                /\ UNCHANGED groupPK
    /\ UNCHANGED << cfgPK, convs, idx, pos, until, cancelled, activated, open, env, prev >>

\* processMetadataList: handler.protocolClient.GroupMetadataList; the call
\* is recorded with the length the log has when the stream is opened
GroupMetadataList ==
    /\ pc = "metaOpen"
    /\ \E res \in {"ok", "err"} :
        /\ trace' = Append(trace, Call("GroupMetadataList", groupPK, metaLog[groupPK], res))
        /\ IF res = "ok"
           THEN /\ pc' = "metaRecv"
                /\ pos' = 0
                /\ until' = UntilNow(metaLog[groupPK])
                /\ open' = open \cup {<<"meta", groupPK>>}
                /\ ret' = Nil
           ELSE /\ Return(Wrap("ErrReplayProcessGroupMetadata",
                               Wrap("ErrEventListMetadata", ClientErr)))
                /\ open' = subCancel(open, <<"meta", groupPK>>)
                /\ UNCHANGED << pos, until >>
    /\ UNCHANGED << cfgPK, convs, idx, groupPK, cancelled, activated, env, prev >>

\* the receive loop taking every error of Recv for the end of the stream
MetadataLoopErrorAsEOF ==
    /\ pc = "metaRecv"
    /\ IF CtxDone
       THEN /\ Return(Wrap("ErrReplayProcessGroupMetadata",
                           Wrap("ErrEventListMetadata", Nil)))
            /\ open' = subCancel(open, <<"meta", groupPK>>)
            /\ UNCHANGED << pos, trace, storeConvs >>
       ELSE \/ /\ trace' = Append(trace, Call("MetadataRecv", groupPK, pos + 1, "err"))
               /\ pc' = AfterMetadata
               /\ ret' = Nil
               /\ open' = subCancel(open, <<"meta", groupPK>>)
               /\ UNCHANGED << pos, storeConvs >>
            \/ /\ pos >= until
               /\ trace' = Append(trace, Call("MetadataRecv", groupPK, pos + 1, "EOF"))
               /\ pc' = AfterMetadata
               /\ ret' = Nil
               /\ open' = subCancel(open, <<"meta", groupPK>>)
               /\ UNCHANGED << pos, storeConvs >>
            \/ /\ pos < until
               /\ pos < metaLog[groupPK]
               /\ \E res \in {"ok", "err"} :
                   /\ trace' = trace \o << Call("MetadataRecv", groupPK, pos + 1, "ok"),
                                           Call("handleMetadataEvent", groupPK, pos + 1, res) >>
                   /\ IF res = "ok"
                      THEN /\ pos' = pos + 1
                           /\ storeConvs' = AddConversation(storeConvs,
                                                Created(<<"meta", groupPK, pos + 1>>))
                           /\ UNCHANGED << pc, ret, open >>
                      ELSE /\ Return(Wrap("ErrReplayProcessGroupMetadata", HandlerErr))
                           /\ open' = subCancel(open, <<"meta", groupPK>>)
                           /\ UNCHANGED << pos, storeConvs >>
    /\ UNCHANGED << cfgPK, convs, idx, groupPK, until, cancelled, activated, logs, prev >>

\* processMetadataList: one iteration of the receive loop
MetadataLoop ==
    /\ pc = "metaRecv"
    /\ IF CtxDone
       THEN \* err is nil here: the error of GroupMetadataList
            /\ Return(Wrap("ErrReplayProcessGroupMetadata",
                           Wrap("ErrEventListMetadata", Nil)))
            /\ open' = subCancel(open, <<"meta", groupPK>>)
            /\ UNCHANGED << pos, trace, storeConvs >>
       ELSE \/ /\ trace' = Append(trace, Call("MetadataRecv", groupPK, pos + 1, "err"))
               /\ Return(Wrap("ErrReplayProcessGroupMetadata",
                              Wrap("ErrEventListMetadata", ClientErr)))
               /\ open' = subCancel(open, <<"meta", groupPK>>)
               /\ UNCHANGED << pos, storeConvs >>
            \/ /\ pos >= until
               /\ trace' = Append(trace, Call("MetadataRecv", groupPK, pos + 1, "EOF"))
               /\ pc' = AfterMetadata
               /\ ret' = Nil
               /\ open' = subCancel(open, <<"meta", groupPK>>)
               /\ UNCHANGED << pos, storeConvs >>
            \/ /\ pos < until
               /\ pos < metaLog[groupPK]
               /\ \E res \in {"ok", "err"} :
                   /\ trace' = trace \o << Call("MetadataRecv", groupPK, pos + 1, "ok"),
                                           Call("handleMetadataEvent", groupPK, pos + 1, res) >>
                   /\ IF res = "ok"
                      THEN /\ pos' = pos + 1
                           /\ storeConvs' = AddConversation(storeConvs,
                                                Created(<<"meta", groupPK, pos + 1>>))
                           /\ UNCHANGED << pc, ret, open >>
                      ELSE /\ Return(Wrap("ErrReplayProcessGroupMetadata", HandlerErr))
                           /\ open' = subCancel(open, <<"meta", groupPK>>)
                           /\ UNCHANGED << pos, storeConvs >>
    /\ UNCHANGED << cfgPK, convs, idx, groupPK, until, cancelled, activated, logs, prev >>

\* wrappedDB.getAllConversations
GetAllConversations ==
    /\ pc = "list"
    /\ \E res \in {"ok", "err"} :
        /\ trace' = Append(trace, Call("getAllConversations", cfgPK, 0, res))
        /\ IF res = "ok"
           THEN /\ convs' = storeConvs
                /\ NextConv(0, storeConvs)
           ELSE /\ Return(Wrap("ErrDBRead", DBErr))
                /\ UNCHANGED << convs, idx >>
    /\ UNCHANGED << cfgPK, groupPK, pos, until, cancelled, activated, open, env, prev >>

\* the head of the loop body: b64DecodeBytes(conv.GetPublicKey()), then
\* client.ActivateGroup unless the group is the account group
ConvEntry ==
    /\ pc = "conv"
    /\ LET s == convs[idx] IN
       IF b64DecodeFails(s)
       THEN /\ Return(Wrap("ErrDeserialization", B64Err))
            /\ UNCHANGED << groupPK, activated, trace >>
       ELSE LET pk == b64DecodeBytes(s) IN
            /\ groupPK' = pk
            /\ IF IsAccountGroup(pk)
               THEN /\ pc' = "msgOpen"
                    /\ ret' = Nil
                    /\ UNCHANGED << activated, trace >>
               ELSE \E res \in {"ok", "err"} :
                    /\ trace' = Append(trace, Call("ActivateGroup", pk, 0, res))
                    /\ IF res = "ok"
                       THEN /\ activated' = ActivateGroup(activated, pk)
                            /\ pc' = "metaOpen"
                            /\ ret' = Nil
                       ELSE /\ Return(Wrap("ErrGroupActivate", ClientErr))
                            /\ UNCHANGED activated
    /\ UNCHANGED << cfgPK, convs, idx, pos, until, cancelled, open, env, prev >>

\* processMessageList: handler.protocolClient.GroupMessageList; the call is
\* recorded with the length the log has when the stream is opened
GroupMessageList ==
    /\ pc = "msgOpen"
    /\ \E res \in {"ok", "err"} :
        /\ trace' = Append(trace, Call("GroupMessageList", groupPK, Len(msgLog[groupPK]), res))
        /\ IF res = "ok"
           THEN /\ pc' = "msgRecv"
                /\ pos' = 0
                /\ until' = UntilNow(Len(msgLog[groupPK]))
                /\ open' = open \cup {<<"msg", groupPK>>}
                /\ ret' = Nil
           ELSE /\ Return(Wrap("ErrReplayProcessGroupMessage",
                               Wrap("ErrEventListMessage", ClientErr)))
                /\ open' = subCancel(open, <<"msg", groupPK>>)
                /\ UNCHANGED << pos, until >>
    /\ UNCHANGED << cfgPK, convs, idx, groupPK, cancelled, activated, env, prev >>

\* the flow after processMessageList returned nil
MessagesDone ==
    IF AfterMessages(groupPK) = "deactivate"
    THEN /\ pc' = "deactivate"
         /\ ret' = Nil
         /\ UNCHANGED idx
    ELSE NextConv(idx, convs)

\* processMessageList: one iteration of the receive loop
MessageLoop ==
    /\ pc = "msgRecv"
    /\ IF CtxDone
       THEN \* err is nil here: the error of GroupMessageList
            /\ Return(Wrap("ErrReplayProcessGroupMessage",
                           Wrap("ErrEventListMessage", Nil)))
            /\ open' = subCancel(open, <<"msg", groupPK>>)
            /\ UNCHANGED << pos, idx, trace, storeConvs >>
       ELSE \/ /\ trace' = Append(trace, Call("MessageRecv", groupPK, pos + 1, "err"))
               /\ Return(Wrap("ErrReplayProcessGroupMessage",
                              Wrap("ErrEventListMessage", ClientErr)))
               /\ open' = subCancel(open, <<"msg", groupPK>>)
               /\ UNCHANGED << pos, idx, storeConvs >>
            \/ /\ pos >= until
               /\ trace' = Append(trace, Call("MessageRecv", groupPK, pos + 1, "EOF"))
               /\ MessagesDone
               /\ open' = subCancel(open, <<"msg", groupPK>>)
               /\ UNCHANGED << pos, storeConvs >>
            \/ /\ pos < until
               /\ pos < Len(msgLog[groupPK])
               /\ UnmarshalFails(msgLog[groupPK][pos + 1])
               /\ trace' = Append(trace, Call("MessageRecv", groupPK, pos + 1, "ok"))
               /\ Return(Wrap("ErrReplayProcessGroupMessage",
                              Wrap("ErrDeserialization", ProtoErr)))
               /\ open' = subCancel(open, <<"msg", groupPK>>)
               /\ UNCHANGED << pos, idx, storeConvs >>
            \/ /\ pos < until
               /\ pos < Len(msgLog[groupPK])
               /\ ~UnmarshalFails(msgLog[groupPK][pos + 1])
               /\ \E res \in {"ok", "err"} :
                   /\ trace' = trace \o << Call("MessageRecv", groupPK, pos + 1, "ok"),
                                           Call("handleAppMessage", groupPK, pos + 1, res) >>
                   /\ IF res = "ok"
                      THEN /\ pos' = pos + 1
                           /\ storeConvs' = AddConversation(storeConvs,
                                                Created(<<"msg", groupPK, pos + 1>>))
                           /\ UNCHANGED << pc, ret, open >>
                      ELSE /\ Return(Wrap("ErrReplayProcessGroupMessage",
                                          Wrap("TODO", HandlerErr)))
                           /\ open' = subCancel(open, <<"msg", groupPK>>)
                           /\ UNCHANGED << pos, storeConvs >>
               /\ UNCHANGED idx
    /\ UNCHANGED << cfgPK, convs, groupPK, until, cancelled, activated, logs, prev >>

\* the error of client.DeactivateGroup dropped
DeactivateGroupErrorIgnored ==
    /\ pc = "deactivate"
    /\ \E res \in {"ok", "err"} :
        /\ trace' = Append(trace, Call("DeactivateGroup", groupPK, 0, res))
        /\ activated' = IF res = "ok" THEN activated \ {groupPK} ELSE activated
        /\ NextConv(idx, convs)
    /\ UNCHANGED << cfgPK, convs, groupPK, pos, until, cancelled, open, env, prev >>

\* client.DeactivateGroup, at the end of the loop body
DeactivateGroup ==
    /\ pc = "deactivate"
    /\ \E res \in {"ok", "err"} :
        /\ trace' = Append(trace, Call("DeactivateGroup", groupPK, 0, res))
        /\ IF res = "ok"
           THEN /\ activated' = activated \ {groupPK}
                /\ NextConv(idx, convs)
           ELSE /\ Return(Wrap("ErrGroupDeactivate", ClientErr))
                /\ UNCHANGED << idx, activated >>
    /\ UNCHANGED << cfgPK, convs, groupPK, pos, until, cancelled, open, env, prev >>

\* the context given to getEventsReplayerForDB is cancelled
Cancel ==
    /\ ~cancelled
    /\ cancelled' = TRUE
    /\ UNCHANGED << pc, cfgPK, convs, idx, groupPK, pos, until, ret,
                    activated, open, env, prev, trace >>

Next ==
    \/ InstanceGetConfiguration
    \/ AddAccount
    \/ GroupMetadataList
    \/ MetadataLoop
    \/ GetAllConversations
    \/ ConvEntry
    \/ GroupMessageList
    \/ MessageLoop
    \/ DeactivateGroup
    \/ Cancel

Spec == Init /\ [][Next]_vars

\* ------------------------------------------------------- reading the trace
\* the calls that read or apply the logs of a group
StreamOps == {"GroupMetadataList", "MetadataRecv", "handleMetadataEvent",
              "GroupMessageList", "MessageRecv", "handleAppMessage"}

\* the positions of the calls of op for group g in the trace
CallsOf(op, g) == { i \in 1..Len(trace) : trace[i].op = op /\ trace[i].g = g }

\* the positions of the calls of op for group g that returned without error
OkCallsOf(op, g) == { i \in CallsOf(op, g) : trace[i].res = "ok" }

\* at position i of the trace, ActivateGroup(g) has returned without error
\* and DeactivateGroup(g) has not been called since
ActivatedAt(i, g) ==
    \E a \in OkCallsOf("ActivateGroup", g) :
        /\ a < i
        /\ \A d \in CallsOf("DeactivateGroup", g) : d < a \/ d > i

Succeeded == pc = "done" /\ ret = Nil

C2_AtMostOneActivated == Cardinality(activated \ {AccountGroupPK}) <= 1

\* C3: once the configuration is known, addAccount is called exactly once,
\* with the encoded key of the account group and an empty name, before any
\* metadata event is handled; ActivateGroup and DeactivateGroup are never
\* called for the account group.
C3_AccountGroupHandling ==
    /\ (pc \notin {"idle", "addAccount"} /\ trace[1].res = "ok") =>
          \E a \in 1..Len(trace) :
              /\ trace[a].op = "addAccount"
              /\ trace[a].pk = b64EncodeBytes(AccountGroupPK)
              /\ trace[a].name = ""
              /\ \A i \in 1..Len(trace) :
                    /\ trace[i].op = "addAccount" => i = a
                    /\ trace[i].op = "handleMetadataEvent" => a < i
    /\ CallsOf("ActivateGroup", AccountGroupPK) = {}
    /\ CallsOf("DeactivateGroup", AccountGroupPK) = {}

\* the account group is listed twice and the replay went through both records
C3_Witness ==
    /\ Succeeded
    /\ Len(convs) = 2
    /\ \A i \in 1..2 : convs[i] = b64EncodeBytes(AccountGroupPK)
    /\ OkCallsOf("handleMetadataEvent", AccountGroupPK) # {}
    /\ Cardinality(OkCallsOf("GroupMessageList", AccountGroupPK)) = 2
\* the handler calls of the trace, in order, as << operation, group, item >>
ApplyOps == {"handleMetadataEvent", "handleAppMessage"}

ApplyCalls ==
    LET sel == SelectSeq(trace, LAMBDA e : e.op \in ApplyOps)
    IN  [k \in 1..Len(sel) |-> << sel[k].op, sel[k].g, sel[k].i >>]

\* the items of the handler calls of op for group g, in order
ItemsOf(op, g) ==
    LET sel == SelectSeq(trace, LAMBDA e : e.op = op /\ e.g = g)
    IN  [k \in 1..Len(sel) |-> sel[k].i]

Iota(n) == [k \in 1..n |-> k]

\* the conversation records of group g in the list of the database
RecordsOf(g) ==
    { i \in 1..Len(storeConvs) :
        ~b64DecodeFails(storeConvs[i]) /\ b64DecodeBytes(storeConvs[i]) = g }

\* the handler calls of a whole replay, from the logs and the list
MetadataOf(g) == [k \in 1..metaLog[g] |-> << "handleMetadataEvent", g, k >>]
MessagesOf(g) == [k \in 1..Len(msgLog[g]) |-> << "handleAppMessage", g, k >>]

RECURSIVE RecordsFrom(_)
RecordsFrom(i) ==
    IF i > Len(storeConvs) THEN << >>
    ELSE LET g == b64DecodeBytes(storeConvs[i])
         IN  (IF g = AccountGroupPK THEN << >> ELSE MetadataOf(g))
                 \o MessagesOf(g) \o RecordsFrom(i + 1)

ExpectedApplyCalls == MetadataOf(AccountGroupPK) \o RecordsFrom(1)

\* C4 as stated: after a replay that returned nil, for every group, the
\* metadata events were handled exactly once each in stream order, before the
\* messages of the group, which were handled exactly once each in stream order.
C4_Original ==
    Succeeded =>
        \A g \in Joined(storeConvs) :
            /\ ItemsOf("handleMetadataEvent", g) = Iota(metaLog[g])
            /\ ItemsOf("handleAppMessage", g) = Iota(Len(msgLog[g]))
            /\ \A a \in CallsOf("handleMetadataEvent", g) :
                   \A b \in CallsOf("handleAppMessage", g) : a < b

\* C4 as amended: after a replay that returned nil, the handler calls are: the
\* metadata events of the account group in stream order; then, for each
\* conversation record in list order, the metadata events of its group in
\* stream order unless it is the account group, followed by the messages of
\* its group in stream order.
C4_ApplyOrder == Succeeded => ApplyCalls = ExpectedApplyCalls

\* a group with metadata and messages is listed twice and was replayed twice
C4_Witness ==
    /\ Succeeded
    /\ \E g \in Keys \ {AccountGroupPK} :
          /\ Cardinality(RecordsOf(g)) = 2
          /\ metaLog[g] = 1
          /\ Len(msgLog[g]) = 1
    /\ Len(ApplyCalls) = 4

\* C5 as stated: after a replay that returned nil, every event of the logs of
\* the account group and of the groups of the conversation records has been
\* handled exactly once.
C5_Original ==
    Succeeded =>
        \A g \in Joined(storeConvs) :
            /\ \A k \in 1..metaLog[g] :
                  Cardinality({ i \in CallsOf("handleMetadataEvent", g) : trace[i].i = k }) = 1
            /\ \A k \in 1..Len(msgLog[g]) :
                  Cardinality({ i \in CallsOf("handleAppMessage", g) : trace[i].i = k }) = 1

\* C5 as amended: after a replay that returned nil, every metadata event of the
\* account group has been handled exactly once, and every other event has been
\* handled once for each conversation record of its group (never, for the
\* messages of an account group that has no conversation record).
C5_OncePerRecord ==
    Succeeded =>
        \A g \in Keys :
            LET n == Cardinality(RecordsOf(g)) IN
            /\ \A k \in 1..metaLog[g] :
                  Cardinality({ i \in CallsOf("handleMetadataEvent", g) : trace[i].i = k })
                      = IF g = AccountGroupPK THEN 1 ELSE n
            /\ \A k \in 1..Len(msgLog[g]) :
                  Cardinality({ i \in CallsOf("handleAppMessage", g) : trace[i].i = k }) = n

\* the account group has messages and no conversation record
C5_Witness ==
    /\ Succeeded
    /\ RecordsOf(AccountGroupPK) = {}
    /\ Len(msgLog[AccountGroupPK]) > 0
    /\ \E g \in Keys \ {AccountGroupPK} : OkCallsOf("handleAppMessage", g) # {}

\* the calls between position o and position p of the trace are the receive
\* and the handling, without error, of the items 1..j of group g
DrainedBetween(o, p, g, recv, handle, j) ==
    /\ p = o + 2 * j + 1
    /\ \A k \in 1..j :
          /\ trace[o + 2 * k - 1] = Call(recv, g, k, "ok")
          /\ trace[o + 2 * k] = Call(handle, g, k, "ok")

\* the position of the last call of op for group g before position p
LastBefore(op, g, p) ==
    LET S == { i \in CallsOf(op, g) : i < p }
    IN  CHOOSE i \in S : \A k \in S : k <= i

Codes(err) == { err[i] : i \in 1..Len(err) }

\* C7: when the payload of the i-th message of a stream does not deserialize,
\* replayLogsToDB returns an error that has the code ErrDeserialization, the
\* i-1 messages before it have been handled, and neither this message nor a
\* later one is handled.
C7_DeserializationError ==
    \A p \in 1..Len(trace) :
        (trace[p].op = "MessageRecv" /\ trace[p].res = "ok"
            /\ msgLog[trace[p].g][trace[p].i] = "garbage") =>
            /\ p = Len(trace)
            /\ pc = "done"
            /\ "ErrDeserialization" \in Codes(ret)
            /\ DrainedBetween(LastBefore("GroupMessageList", trace[p].g, p), p, trace[p].g,
                              "MessageRecv", "handleAppMessage", trace[p].i - 1)

\* the second message of a group is garbage
C7_Witness ==
    /\ pc = "done"
    /\ Len(trace) > 0
    /\ LET e == trace[Len(trace)] IN
          /\ e.op = "MessageRecv"
          /\ e.res = "ok"
          /\ e.i = 2
          /\ msgLog[e.g] = << "app", "garbage" >>
          /\ OkCallsOf("handleAppMessage", e.g) # {}
\* the last call of the trace is one that ends an iteration of the loop, or
\* the listing of the conversations
AtEndOfIteration ==
    /\ Len(trace) > 0
    /\ LET e == trace[Len(trace)] IN
          \/ e.op = "getAllConversations" /\ e.res = "ok"
          \/ e.op = "DeactivateGroup" /\ e.res = "ok"
          \/ e.op = "MessageRecv" /\ e.res = "EOF" /\ e.g = AccountGroupPK

\* C8: a call that failed, a payload that did not deserialize and a key that
\* did not decode are each the last thing the invocation did: replayLogsToDB
\* has returned a non-nil error and has called nothing since.
C8_ErrorsAreFatal ==
    /\ \A p \in 1..Len(trace) :
          (\/ trace[p].res = "err"
           \/ /\ trace[p].op = "MessageRecv"
              /\ trace[p].res = "ok"
              /\ msgLog[trace[p].g][trace[p].i] = "garbage") =>
              /\ p = Len(trace)
              /\ pc = "done"
              /\ ret # Nil
    /\ (idx >= 1 /\ idx <= Len(convs) /\ pc # "conv"
          /\ \E c \in 1..Len(convs[idx]) : convs[idx][c] > 63) =>
              /\ pc = "done"
              /\ ret # Nil
              /\ AtEndOfIteration
    /\ Succeeded => idx = Len(convs)

\* the deactivation of the first of two groups failed
C8_Witness ==
    /\ pc = "done"
    /\ Len(convs) = 2
    /\ idx = 1
    /\ Len(trace) > 0
    /\ trace[Len(trace)].op = "DeactivateGroup"
    /\ trace[Len(trace)].res = "err"
    /\ ret = << "ErrGroupDeactivate", "rpc" >>

\* C9 as stated: an error returned by replayLogsToDB has a code of its own for
\* the step that failed, never the placeholder code, and wraps the error of
\* the collaborator.
C9_Original ==
    (pc = "done" /\ ret # Nil) =>
        /\ ret[1] # "TODO"
        /\ ret[Len(ret)] \in {"rpc", "db", "base64", "proto", "handler"}

\* C10: when replayLogsToDB returns nil no group is left activated, and each
\* group other than the account group has been activated and deactivated once
\* for each of its conversation records, every activation followed by its
\* deactivation before the next call of either.
C10_QuiescentOnSuccess ==
    Succeeded =>
        /\ activated = {}
        /\ \A g \in Keys \ {AccountGroupPK} :
              LET A == CallsOf("ActivateGroup", g)
                  D == CallsOf("DeactivateGroup", g)
              IN  /\ Cardinality(A) = Cardinality(RecordsOf(g))
                  /\ Cardinality(D) = Cardinality(A)
                  /\ \A a \in A : \E d \in D :
                        /\ a < d
                        /\ trace[a].res = "ok"
                        /\ trace[d].res = "ok"
                        /\ \A x \in a + 1 .. d - 1 :
                              trace[x].op \notin {"ActivateGroup", "DeactivateGroup"}

\* an invocation returned nil after replaying two groups
C10_Witness ==
    /\ Succeeded
    /\ \E g \in Keys \ {AccountGroupPK} : \E h \in Keys \ {AccountGroupPK, g} :
          /\ OkCallsOf("DeactivateGroup", g) # {}
          /\ OkCallsOf("DeactivateGroup", h) # {}

\* ---------------------------------------------------------- failure path
\* the invocation returned the error of a drain of a group other than the
\* account group
DrainFailed ==
    /\ pc = "done"
    /\ ret # Nil
    /\ ret[1] \in {"ErrReplayProcessGroupMetadata", "ErrReplayProcessGroupMessage"}
    /\ idx >= 1
    /\ groupPK # AccountGroupPK

\* the groups this invocation activated and has not deactivated since
LeftActivated ==
    { g \in Keys : \E a \in OkCallsOf("ActivateGroup", g) :
                       \A d \in OkCallsOf("DeactivateGroup", g) : d < a }

\* C11 as stated: when a drain of a group G other than the account group
\* failed, DeactivateGroup(G) has not been called by this invocation and G is
\* activated; an invocation that returned an error leaves at most one group
\* activated, the one of the iteration that failed.
C11_Original ==
    /\ DrainFailed =>
          /\ CallsOf("DeactivateGroup", groupPK) = {}
          /\ groupPK \in activated
    /\ (pc = "done" /\ ret # Nil) =>
          /\ Cardinality(LeftActivated) <= 1
          /\ LeftActivated \subseteq {groupPK}

\* C11 as amended: when a drain of a group G other than the account group
\* failed, DeactivateGroup(G) has not been called since the ActivateGroup(G)
\* of the iteration that failed and G is activated; an invocation that
\* returned an error leaves at most one group activated, the one of the
\* iteration that failed.
C11_LeftActivated ==
    /\ DrainFailed =>
          /\ OkCallsOf("ActivateGroup", groupPK) # {}
          /\ \A d \in CallsOf("DeactivateGroup", groupPK) :
                \E a \in OkCallsOf("ActivateGroup", groupPK) : d < a
          /\ LeftActivated = {groupPK}
          /\ groupPK \in activated
    /\ (pc = "done" /\ ret # Nil) =>
          /\ Cardinality(LeftActivated) <= 1
          /\ LeftActivated \subseteq {groupPK}

\* the message drain of the second record of a group failed, after the
\* iteration of its first record had deactivated the group
C11_Witness ==
    /\ DrainFailed
    /\ ret[1] = "ErrReplayProcessGroupMessage"
    /\ idx = 2
    /\ OkCallsOf("DeactivateGroup", groupPK) # {}

\* ------------------------------------------------------------ list order
\* the groups of the GroupMessageList calls of the trace, in order
MessageListGroups ==
    LET sel == SelectSeq(trace, LAMBDA e : e.op = "GroupMessageList")
    IN  [k \in 1..Len(sel) |-> sel[k].g]

\* C14: the groups for which the message streams are opened are, in order,
\* the groups of the records of the list getAllConversations returned, one
\* stream for each record up to the one being processed, and one for each
\* record of the whole list of the database when replayLogsToDB returns nil.
C14_ListOrder ==
    LET n == Len(MessageListGroups) IN
    /\ n <= Len(convs)
    /\ n \in {idx - 1, idx} \/ (n = 0 /\ idx = 0)
    /\ \A k \in 1..n : MessageListGroups[k] = b64DecodeBytes(convs[k])
    /\ Succeeded =>
          /\ convs = storeConvs
          /\ n = Len(storeConvs)

\* a group was listed twice and a message stream was opened for each of its
\* two records
C14_Witness ==
    /\ Succeeded
    /\ Len(MessageListGroups) = 2
    /\ MessageListGroups[1] = MessageListGroups[2]
    /\ MessageListGroups[1] # AccountGroupPK

\* --------------------------------------------------------- handler errors
\* C18 as stated: in processMetadataList and in processMessageList an error
\* of the handler is the last call of the drain, and the drain returns it
\* unchanged: what replayLogsToDB returns is the code of the drain that failed
\* around the error of the handler, with no other code in between.
C18_Original ==
    \A p \in 1..Len(trace) :
        (trace[p].op \in ApplyOps /\ trace[p].res = "err") =>
            /\ p = Len(trace)
            /\ pc = "done"
            /\ Len(ret) >= 1
            /\ ret[1] = (IF trace[p].op = "handleMetadataEvent"
                         THEN "ErrReplayProcessGroupMetadata"
                         ELSE "ErrReplayProcessGroupMessage")
            /\ Tail(ret) = HandlerErr

\* --------------------------------------------------------- stream scopes
\* C16: at most one stream is open at any time; a stream is open only while
\* the flow is in the receive loop of the drain that opened it, and it is the
\* stream of that drain: at every other position, where replayLogsToDB makes
\* its next call or has returned, whatever way the drain ended, none is open.
C16_StreamsScoped ==
    /\ Cardinality(open) <= 1
    /\ pc = "metaRecv" => open = { <<"meta", groupPK>> }
    /\ pc = "msgRecv" => open = { <<"msg", groupPK>> }
    /\ pc \notin {"metaRecv", "msgRecv"} => open = {}

\* the drain of the messages of the second conversation ended on an error of
\* the handler, after the four drains before it ended on the end of their stream
C16_Witness ==
    /\ pc = "done"
    /\ idx = 2
    /\ open = {}
    /\ trace[Len(trace)].op = "handleAppMessage"
    /\ trace[Len(trace)].res = "err"
    /\ Cardinality({ i \in 1..Len(trace) : trace[i].res = "EOF" }) = 4

\* ------------------------------------------------------------ cancellation
\* C15: when the context is cancelled while the flow is in the receive loop of
\* a drain, the next step of the loop receives and handles nothing and makes
\* replayLogsToDB return the list error of the drain, which is not nil.
C15_CancellationSurfaces ==
    [][ (cancelled /\ pc \in {"metaRecv", "msgRecv"}) =>
            /\ pc' = "done"
            /\ trace' = trace
            /\ ret' # Nil
            /\ ret' = (IF pc = "metaRecv"
                       THEN << "ErrReplayProcessGroupMetadata", "ErrEventListMetadata" >>
                       ELSE << "ErrReplayProcessGroupMessage", "ErrEventListMessage" >>)
      ]_vars

\* the context was cancelled after the first message of a group had been
\* handled, and the drain returned before the second one
C15_Witness ==
    /\ pc = "done"
    /\ cancelled
    /\ ret = << "ErrReplayProcessGroupMessage", "ErrEventListMessage" >>
    /\ trace[Len(trace)] = Call("handleAppMessage", groupPK, 1, "ok")
    /\ Len(msgLog[groupPK]) = 2

\* ---------------------------------------------------- the worked scenario
\* the list of the database is [H, A, B]; the metadata log of H has 2 events
\* and its message log none, A has 1 metadata event and 3 messages, the logs
\* of B are empty
InitScenario ==
    /\ InitReplayer
    /\ metaLog = [k \in Keys |-> IF k = AccountGroupPK THEN 2 ELSE IF k = 1 THEN 1 ELSE 0]
    /\ msgLog = [k \in Keys |-> IF k = 1 THEN << "app", "app", "app" >> ELSE << >>]
    /\ storeConvs = << b64EncodeBytes(AccountGroupPK), b64EncodeBytes(1), b64EncodeBytes(2) >>
    /\ creates = << >>

SpecScenario == InitScenario /\ [][Next]_vars

\* the calls of the trace that ensure the account, activate or deactivate a
\* group or hand an event to the handler, in order
EffectCalls ==
    LET sel == SelectSeq(trace, LAMBDA e : e.op \in {"addAccount", "ActivateGroup",
                                                      "DeactivateGroup"} \cup ApplyOps)
    IN  [k \in 1..Len(sel) |-> << sel[k].op, sel[k].g, sel[k].i >>]

\* C13: in the scenario, an invocation that returns nil has made exactly the
\* calls addAccount(H); handleMetadataEvent for the 2 events of H;
\* ActivateGroup(A); handleMetadataEvent for the event of A; handleAppMessage
\* for the 3 messages of A; DeactivateGroup(A); ActivateGroup(B);
\* DeactivateGroup(B); and an invocation returns nil unless a call failed or
\* the context was cancelled.
C13_Scenario ==
    /\ Succeeded =>
          EffectCalls = << << "addAccount", 0, 0 >>,
                           << "handleMetadataEvent", 0, 1 >>,
                           << "handleMetadataEvent", 0, 2 >>,
                           << "ActivateGroup", 1, 0 >>,
                           << "handleMetadataEvent", 1, 1 >>,
                           << "handleAppMessage", 1, 1 >>,
                           << "handleAppMessage", 1, 2 >>,
                           << "handleAppMessage", 1, 3 >>,
                           << "DeactivateGroup", 1, 0 >>,
                           << "ActivateGroup", 2, 0 >>,
                           << "DeactivateGroup", 2, 0 >> >>
    /\ (pc = "done" /\ ret # Nil) =>
          \/ cancelled
          \/ \E p \in 1..Len(trace) : trace[p].res = "err"

\* the invocation of the scenario returned nil
C13_Witness ==
    /\ Succeeded
    /\ Len(storeConvs) = 3
    /\ Len(EffectCalls) = 11
    /\ activated = {}

\* ---------------------------------------------------------------- liveness
\* a step of an invocation in progress: a call of a collaborator returns, or
\* the check of the context at the top of a receive loop is made
Step ==
    \/ AddAccount
    \/ GroupMetadataList
    \/ MetadataLoop
    \/ GetAllConversations
    \/ ConvEntry
    \/ GroupMessageList
    \/ MessageLoop
    \/ DeactivateGroup

\* every call returns and every receive ends with an item, the end of the
\* stream or an error; nothing is assumed of the caller, who may never call
\* the replayer again and may never cancel
\* the inputs of Init in which no record is listed twice
InitFair ==
    /\ Init
    /\ \A i \in 1..Len(storeConvs) : \A j \in 1..Len(storeConvs) :
          storeConvs[i] = storeConvs[j] => i = j

FairSpec == InitFair /\ [][Next]_vars /\ WF_vars(Step)

InProgress == pc \notin {"idle", "done"}

\* C17: an invocation in progress eventually returns; and the flow leaves a
\* receive loop only by a step that got a result from Recv or found the
\* context cancelled: no step makes it return for the time that has passed.
C17_Returns ==
    /\ InProgress ~> pc = "done"
    /\ [][ (pc \in {"metaRecv", "msgRecv"} /\ pc' # pc) =>
               (cancelled \/ trace' # trace) ]_vars

\* an invocation returned nil after it had gone through two conversations
\* and every stream it opened had ended
C17_Witness ==
    /\ Succeeded
    /\ idx = 2
    /\ Cardinality({ i \in 1..Len(trace) : trace[i].res = "EOF" }) >= 3
    /\ ~cancelled

\* ------------------------------------------------------ concurrent writers
\* a member of a group the account has joined appends an event to one of the
\* logs of the group, at any time
Writer ==
    /\ TotalItems(metaLog, msgLog) < MaxItems
    /\ \E k \in Joined(storeConvs) :
          \/ /\ metaLog' = [metaLog EXCEPT ![k] = @ + 1]
             /\ UNCHANGED msgLog
          \/ /\ msgLog' = [msgLog EXCEPT ![k] = Append(@, "app")]
             /\ UNCHANGED metaLog
    /\ UNCHANGED << pc, cfgPK, convs, idx, groupPK, pos, until, ret, cancelled,
                    activated, storeConvs, creates, open, prev, trace >>

NextWriter ==
    \/ Next
    \/ Writer

\* the inputs of Init in which no record is listed twice, every key decodes
\* and every message deserializes
InitWriter ==
    /\ InitFair
    /\ \A i \in 1..Len(storeConvs) : ~b64DecodeFails(storeConvs[i])
    /\ \A k \in Keys : \A i \in 1..Len(msgLog[k]) : ~UnmarshalFails(msgLog[k][i])

SpecWriter == InitWriter /\ [][NextWriter]_vars

\* the call that opened the stream the call at position p of the trace reads
OpenOf(p) ==
    LET op == IF trace[p].op \in {"MetadataRecv", "handleMetadataEvent"}
              THEN "GroupMetadataList" ELSE "GroupMessageList"
    IN  LastBefore(op, trace[p].g, p)

\* C20: the events a drain hands to the handler are events the log held when
\* its stream was opened, and a stream that reached its end has handed
\* exactly those, in the order of the log: an event appended after the stream
\* was opened is not handled by this drain.
C20_PrefixAtOpen ==
    \A p \in 1..Len(trace) :
        /\ trace[p].op \in ApplyOps => trace[p].i <= trace[OpenOf(p)].i
        /\ trace[p].res = "EOF" =>
              DrainedBetween(OpenOf(p), p, trace[p].g,
                             IF trace[p].op = "MetadataRecv"
                             THEN "MetadataRecv" ELSE "MessageRecv",
                             IF trace[p].op = "MetadataRecv"
                             THEN "handleMetadataEvent" ELSE "handleAppMessage",
                             trace[OpenOf(p)].i)

\* replayLogsToDB returned nil and the metadata log of a listed group has an
\* event that was appended after its stream was opened and was not handled
C20_Witness ==
    /\ Succeeded
    /\ \E o \in 1..Len(trace) :
          /\ trace[o].op = "GroupMetadataList"
          /\ trace[o].g # AccountGroupPK
          /\ trace[o].i = 1
          /\ metaLog[trace[o].g] = 2
          /\ Cardinality(CallsOf("handleMetadataEvent", trace[o].g)) = 1

\* ------------------------------------------- records created by the handler
\* the keys of PKStrings that decode
DecodablePKStrings == { s \in PKStrings : ~b64DecodeFails(s) }

\* the logs, with messages that deserialize, the conversation records of the
\* database, none listed twice, and the records the handler creates for the
\* events, at least one, which the database has room for
InitStore ==
    /\ InitReplayer
    /\ metaLog \in [Keys -> 0..MaxItems]
    /\ msgLog \in [Keys -> SeqsUpTo({"app"}, MaxItems - SumLen(metaLog, Keys))]
    /\ TotalItems(metaLog, msgLog) <= MaxItems
    /\ creates \in [EventsOf(metaLog, msgLog) -> DecodablePKStrings \cup {NoRecord}]
    /\ LET made == { e \in DOMAIN creates : creates[e] # NoRecord } IN
          /\ made # {}
          /\ storeConvs \in SeqsUpTo(DecodablePKStrings, MaxConvs - Cardinality(made))
          /\ \A i \in 1..Len(storeConvs) : \A j \in 1..Len(storeConvs) :
                storeConvs[i] = storeConvs[j] => i = j
          /\ \A k \in Keys \ (Joined(storeConvs) \cup
                                { b64DecodeBytes(creates[e]) :
                                    e \in { m \in made : ~b64DecodeFails(creates[m]) } }) :
                metaLog[k] = 0 /\ msgLog[k] = << >>

\* the events the handler has applied in this invocation
AppliedBy ==
    { << trace[i].op, trace[i].g, trace[i].i >> :
        i \in { j \in 1..Len(trace) : trace[j].op \in ApplyOps /\ trace[j].res = "ok" } }

\* the replayer is called again after it returned nil; what it left is kept:
\* the records of the database, the list it had enumerated and the events it
\* had applied
ReplayAgain ==
    /\ Succeeded
    /\ Invoke
    /\ prev' = [store |-> storeConvs, listed |-> convs, applied |-> AppliedBy]

NextStore ==
    \/ Next
    \/ ReplayAgain

SpecStore == InitStore /\ [][NextStore]_vars

\* the positions of the calls of getAllConversations in the trace
Listings == { p \in 1..Len(trace) : trace[p].op = "getAllConversations" }

\* C19: getAllConversations is called at most once in an invocation, right
\* after the metadata stream of the account group reached its end and before
\* every ActivateGroup; the list it returned holds the records created by the
\* metadata events of the account group, and the loop goes through this list
\* only: a record created later in the invocation gets no iteration.
C19_EnumeratedOnce ==
    /\ Cardinality(Listings) <= 1
    /\ \A p \in Listings :
          /\ p > 1
          /\ trace[p - 1].op = "MetadataRecv"
          /\ trace[p - 1].g = AccountGroupPK
          /\ trace[p - 1].res = "EOF"
          /\ \A a \in 1..Len(trace) : trace[a].op = "ActivateGroup" => p < a
          /\ trace[p].res = "ok" =>
                /\ Len(convs) <= Len(storeConvs)
                /\ \A k \in 1..Len(convs) : convs[k] = storeConvs[k]
                /\ \A q \in 1..(p - 1) :
                      (trace[q].op = "handleMetadataEvent" /\ trace[q].res = "ok"
                          /\ Created(<<"meta", AccountGroupPK, trace[q].i>>) # NoRecord) =>
                          \E k \in 1..Len(convs) :
                              convs[k] = Created(<<"meta", AccountGroupPK, trace[q].i>>)
    /\ (\E a \in 1..Len(trace) : trace[a].op \in {"ActivateGroup", "GroupMessageList"})
          => Listings # {}
    /\ Len(MessageListGroups) <= Len(convs)
    /\ \A k \in 1..Len(MessageListGroups) : MessageListGroups[k] = b64DecodeBytes(convs[k])
    /\ Succeeded => Len(MessageListGroups) = Len(convs)

\* replayLogsToDB returned nil after it went through a record created by a
\* metadata event of the account group, and the database holds a record that
\* an event of that conversation created and that was not gone through
C19_Witness ==
    /\ Succeeded
    /\ Len(convs) = 1
    /\ Len(storeConvs) = 2
    /\ convs[1] = Created(<<"meta", AccountGroupPK, 1>>)
    /\ \E g \in Keys \ {AccountGroupPK} :
          /\ storeConvs[2] = Created(<<"meta", g, 1>>)
          /\ OkCallsOf("handleMetadataEvent", g) # {}

\* -------------------------------------------------------------- idempotence
\* The handler applies an event idempotently: the database after an invocation
\* is its records and the set of the events applied so far, and applying
\* again an event of the set changes neither.

\* the database after this invocation is the one the invocation before left
SameStore ==
    /\ storeConvs = prev.store
    /\ AppliedBy \subseteq prev.applied

====
